---- MODULE Spec2Model ----
(***************************************************************************)
(* Model of app.py, the Streamlit page "Registro mensual".                 *)
(*                                                                         *)
(* Spec        one script run after another: the cached loaders, the      *)
(*             entry form and its insert, the st.stop() exits, and the    *)
(*             remote store the reads and the insert go to.               *)
(* SpecKpi     the KPI block (total and per-user savings) on summary rows. *)
(* SpecEur     eur() on amounts given in cents.                            *)
(* SpecFilter  the dashboard filter and the history filter and sort.       *)
(***************************************************************************)
EXTENDS Integers, Sequences, FiniteSets, TLC

VARIABLES
    \* ---- Spec: the script run ----
    pc,             \* position of the script: "idle" between runs
    cache,          \* st.cache_data: loader -> {} or {[age, val]}
    dbRows,         \* rows of finance.income_entries in the remote store
    nProfiles,      \* rows of finance.profiles in the remote store
    formOnScreen,   \* the page shows insert_form (the last run rendered it)
    submitted,      \* st.form_submit_button("Insertar") of this run
    amount,         \* st.number_input("Cantidad") of this run, in cents
    loaded,         \* call site -> {} or {value returned in this run}
    roundTrips,     \* execute() calls of this run (reads and insert)
    insertAttempts, \* insert(...).execute() calls of this run
    insertResult,   \* "none" | "ok" | "error" | "exception"
    cleared,        \* st.cache_data.clear() was called in this run
    shown,          \* messages of this run (st.error, st.success, ...)
    rendered,       \* sections of the page rendered in this run
    insertedVer,    \* dbRows right after the last successful local insert
    \* ---- SpecKpi ----
    df_kpi, total_ahorro, df_ahorro_user, kpi_done,
    \* ---- SpecEur ----
    x, eur_out,
    \* ---- SpecFilter ----
    df,             \* summary rows as load_monthly_view returned them
    user_filter,    \* sidebar "Usuario"
    date_from,      \* sidebar "Fecha origen", as picked
    date_to,        \* sidebar "Fecha destino", as picked
    df_f,           \* the filtered and sorted summary rows
    dash_done,      \* "no" | "done" | "stopped" (st.stop at line 214)
    df_entries,     \* [created_at: the column exists, rows: the entries]
    hist_user,      \* "Usuario (histórico)"
    hist_tipo,      \* "Tipo (histórico)"
    date_range,     \* "Rango inserción": <<>> (None), <<d>> or <<d0, d1>>
    df_hist,        \* the filtered entries, before the final sort
    df_hist_out,    \* the table shown
    hist_done       \* "no" | "done" | "error" (uncaught exception)

runVars == <<pc, cache, dbRows, nProfiles, formOnScreen, submitted, amount,
             loaded, roundTrips, insertAttempts, insertResult, cleared,
             shown, rendered, insertedVer>>
kpiVars == <<df_kpi, total_ahorro, df_ahorro_user, kpi_done>>
eurVars == <<x, eur_out>>
dashVars == <<df, user_filter, date_from, date_to, df_f, dash_done>>
histVars == <<df_entries, hist_user, hist_tipo, date_range, df_hist,
              df_hist_out, hist_done>>
vars == <<runVars, kpiVars, eurVars, dashVars, histVars>>

(***************************************************************************)
(* Bounds of the model.                                                    *)
(***************************************************************************)
MaxRows == 2        \* rows the income_entries table can hold
MaxProfiles == 1    \* rows the profiles table can hold
MaxAmount == 1      \* largest amount (in cents) typed into the form
MaxKpiRows == 3     \* summary rows given to the KPI block
MaxSummaryRows == 3 \* summary rows given to the dashboard filter
MaxEntries == 2     \* entries given to the history
MaxCents == 120     \* eur: every amount of -MaxCents..MaxCents cents is formatted

(***************************************************************************)
(* Program constants.                                                      *)
(***************************************************************************)
TTL_PROFILES == 60
TTL_MONTHLY == 30
TTL_ENTRIES == 30

Loaders == {"load_profiles", "load_monthly_view", "load_income_entries"}
CallSites == {"df_kpi", "profiles", "df", "df_entries"}
Responses == {"ok", "error", "raise"}

TTL(l) ==
    CASE l = "load_profiles" -> TTL_PROFILES
      [] l = "load_monthly_view" -> TTL_MONTHLY
      [] l = "load_income_entries" -> TTL_ENTRIES

Min(a, b) == IF a < b THEN a ELSE b

(***************************************************************************)
(* The remote store and the cached loaders (lines 23-74).                  *)
(***************************************************************************)

\* What one execute() of a read yields: `getattr(res, "data", None) or []`.
\* A response that carries an error object carries no data.  asOf is the
\* state of the store the response was computed from.
Rows(l, resp) ==
    [asOf |-> dbRows,
     n |-> IF resp # "ok" THEN 0
           ELSE IF l = "load_profiles" THEN nProfiles ELSE dbRows,
     created_at |-> FALSE]

\* @st.cache_data(ttl=...): an entry younger than the loader's ttl is served.
Cached(l) == \E e \in cache[l] : e.age < TTL(l)
CachedValue(l) == (CHOOSE e \in cache[l] : TRUE).val
Store(l, v) == [cache EXCEPT ![l] = {[age |-> 0, val |-> v]}]

Hit(l) == [val |-> CachedValue(l), trips |-> 0, raised |-> FALSE, cache |-> cache]
Raised(l, k) ==
    [val |-> Rows(l, "error"), trips |-> k, raised |-> TRUE, cache |-> cache]
Fetched(l, v, k) ==
    [val |-> v, trips |-> k, raised |-> FALSE, cache |-> Store(l, v)]

\* One query, result cached (lines 23-32 and 34-45).
LoadOneQuery(l, resp) ==
    IF Cached(l) THEN Hit(l)
    ELSE IF resp = "raise" THEN Raised(l, 1)
    ELSE Fetched(l, Rows(l, resp), 1)

load_profiles(resp) == LoadOneQuery("load_profiles", resp)

load_monthly_view(resp) == LoadOneQuery("load_monthly_view", resp)

\* Lines 47-74: the query with created_at, and the fallback query without it
\* when the first response carries an error.
load_income_entries(resp1, resp2) ==
    LET l == "load_income_entries" IN
    IF Cached(l) THEN Hit(l)
    ELSE IF resp1 = "raise" THEN Raised(l, 1)
    ELSE IF resp1 = "ok"
         THEN Fetched(l, [Rows(l, "ok") EXCEPT !.created_at = (dbRows > 0)], 1)
    ELSE IF resp2 = "raise" THEN Raised(l, 2)
    ELSE Fetched(l, Rows(l, resp2), 2)

NoCache == [l \in Loaders |-> {}]
NothingLoaded == [c \in CallSites |-> {}]

(***************************************************************************)
(* The variables of the other specifications stay at rest in Spec.         *)
(***************************************************************************)
KpiAtRest ==
    /\ df_kpi = <<>> /\ total_ahorro = 0 /\ df_ahorro_user = <<>>
    /\ kpi_done = FALSE
EurAtRest == x = 0 /\ eur_out = <<>>
DashAtRest ==
    /\ df = <<>> /\ user_filter = "" /\ date_from = <<0, 0, 0>>
    /\ date_to = <<0, 0, 0>> /\ df_f = <<>> /\ dash_done = "no"
HistAtRest ==
    /\ df_entries = [created_at |-> FALSE, rows |-> <<>>]
    /\ hist_user = "" /\ hist_tipo = ""
    /\ date_range = <<>> /\ df_hist = <<>> /\ df_hist_out = <<>>
    /\ hist_done = "no"
RunAtRest ==
    /\ pc = "idle" /\ cache = NoCache /\ dbRows = 0 /\ nProfiles = 0
    /\ formOnScreen = FALSE /\ submitted = FALSE /\ amount = 0
    /\ loaded = NothingLoaded /\ roundTrips = 0 /\ insertAttempts = 0
    /\ insertResult = "none" /\ cleared = FALSE /\ shown = {}
    /\ rendered = {} /\ insertedVer = 0

(***************************************************************************)
(* Spec: the script, top to bottom, once per UI action.                    *)
(***************************************************************************)
Init == RunAtRest /\ KpiAtRest /\ EurAtRest /\ DashAtRest /\ HistAtRest

dataVars == <<kpiVars, eurVars, dashVars, histVars>>

\* An exception no try block catches ends the run; Streamlit shows it.
Abort(r, formStays) ==
    /\ pc' = "idle"
    /\ cache' = r.cache
    /\ roundTrips' = roundTrips + r.trips
    /\ shown' = shown \cup {"exception"}
    /\ formOnScreen' = formStays
    /\ UNCHANGED <<loaded, rendered>>

\* A UI action reruns the script.  The submit button can only have been
\* pressed if the page shows the form; the form's amount reaches the script
\* with the submit and is the default 0.00 otherwise (clear_on_submit).
StartRun ==
    /\ pc = "idle"
    /\ \E sub \in BOOLEAN, amt \in 0..MaxAmount :
          /\ sub => formOnScreen
          /\ ~sub => amt = 0
          /\ submitted' = sub
          /\ amount' = amt
    /\ pc' = "kpi"
    /\ loaded' = NothingLoaded
    /\ roundTrips' = 0
    /\ insertAttempts' = 0
    /\ insertResult' = "none"
    /\ cleared' = FALSE
    /\ shown' = {}
    /\ rendered' = {}
    /\ UNCHANGED <<cache, dbRows, nProfiles, formOnScreen, insertedVer, dataVars>>

\* Lines 92-127.
Kpi ==
    /\ pc = "kpi"
    /\ \E resp \in Responses :
          LET r == load_monthly_view(resp) IN
          IF r.raised THEN Abort(r, FALSE)
          ELSE /\ pc' = "profiles"
               /\ cache' = r.cache
               /\ roundTrips' = roundTrips + r.trips
               /\ loaded' = [loaded EXCEPT !["df_kpi"] = {r.val}]
               /\ shown' = IF r.val.n = 0 THEN shown \cup {"info_no_kpi"} ELSE shown
               /\ rendered' = rendered \cup {"kpi"}
               /\ UNCHANGED formOnScreen
    /\ UNCHANGED <<dbRows, nProfiles, submitted, amount, insertAttempts,
                   insertResult, cleared, insertedVer, dataVars>>

\* Mutant of LoadProfiles: the error is shown but st.stop() is missing.
LoadProfiles_NoStop ==
    /\ pc = "profiles"
    /\ \E resp \in Responses :
          LET r == load_profiles(resp) IN
          IF r.raised THEN Abort(r, FALSE)
          ELSE /\ cache' = r.cache
               /\ roundTrips' = roundTrips + r.trips
               /\ loaded' = [loaded EXCEPT !["profiles"] = {r.val}]
               /\ UNCHANGED <<rendered, formOnScreen>>
               /\ pc' = "form"
               /\ shown' = IF r.val.n = 0 THEN shown \cup {"error_no_users"}
                           ELSE shown
    /\ UNCHANGED <<dbRows, nProfiles, submitted, amount, insertAttempts,
                   insertResult, cleared, insertedVer, dataVars>>

\* Lines 132-135: no profiles, st.error and st.stop().
LoadProfiles ==
    /\ pc = "profiles"
    /\ \E resp \in Responses :
          LET r == load_profiles(resp) IN
          IF r.raised THEN Abort(r, FALSE)
          ELSE /\ cache' = r.cache
               /\ roundTrips' = roundTrips + r.trips
               /\ loaded' = [loaded EXCEPT !["profiles"] = {r.val}]
               /\ UNCHANGED rendered
               /\ IF r.val.n = 0
                  THEN /\ shown' = shown \cup {"error_no_users"}
                       /\ pc' = "idle"
                       /\ formOnScreen' = FALSE
                  ELSE /\ pc' = "form"
                       /\ UNCHANGED <<shown, formOnScreen>>
    /\ UNCHANGED <<dbRows, nProfiles, submitted, amount, insertAttempts,
                   insertResult, cleared, insertedVer, dataVars>>

\* Lines 137-175: the form is drawn; submitted and amount are read.
Form ==
    /\ pc = "form"
    /\ pc' = "submit"
    /\ rendered' = rendered \cup {"form"}
    /\ formOnScreen' = TRUE
    /\ UNCHANGED <<cache, dbRows, nProfiles, submitted, amount, loaded,
                   roundTrips, insertAttempts, insertResult, cleared, shown,
                   insertedVer, dataVars>>

\* Mutant of Insert: the success branch forgets st.cache_data.clear().
Insert_NoClear(resp) ==
    /\ roundTrips' = roundTrips + 1
    /\ insertAttempts' = insertAttempts + 1
    /\ CASE resp = "ok" ->
              /\ dbRows < MaxRows
              /\ dbRows' = dbRows + 1
              /\ insertedVer' = dbRows + 1
              /\ insertResult' = "ok"
              /\ shown' = shown \cup {"success"}
              /\ UNCHANGED <<cache, cleared>>
         [] resp = "error" ->
              /\ insertResult' = "error"
              /\ shown' = shown \cup {"error_insert"}
              /\ UNCHANGED <<dbRows, insertedVer, cache, cleared>>
         [] resp = "raise" ->
              /\ insertResult' = "exception"
              /\ shown' = shown \cup {"exception_insert"}
              /\ UNCHANGED <<dbRows, insertedVer, cache, cleared>>

\* Mutant of Insert: st.cache_data.clear() moved to a finally block.
Insert_ClearAlways(resp) ==
    /\ roundTrips' = roundTrips + 1
    /\ insertAttempts' = insertAttempts + 1
    /\ cache' = NoCache
    /\ cleared' = TRUE
    /\ CASE resp = "ok" ->
              /\ dbRows < MaxRows
              /\ dbRows' = dbRows + 1
              /\ insertedVer' = dbRows + 1
              /\ insertResult' = "ok"
              /\ shown' = shown \cup {"success"}
         [] resp = "error" ->
              /\ insertResult' = "error"
              /\ shown' = shown \cup {"error_insert"}
              /\ UNCHANGED <<dbRows, insertedVer>>
         [] resp = "raise" ->
              /\ insertResult' = "exception"
              /\ shown' = shown \cup {"exception_insert"}
              /\ UNCHANGED <<dbRows, insertedVer>>

\* Mutant of Insert: a failed insert is tried a second time.
Insert_Retry(resp) ==
    /\ roundTrips' = roundTrips + (IF resp = "ok" THEN 1 ELSE 2)
    /\ insertAttempts' = insertAttempts + (IF resp = "ok" THEN 1 ELSE 2)
    /\ CASE resp = "ok" ->
              /\ dbRows < MaxRows
              /\ dbRows' = dbRows + 1
              /\ insertedVer' = dbRows + 1
              /\ insertResult' = "ok"
              /\ shown' = shown \cup {"success"}
              /\ cache' = NoCache
              /\ cleared' = TRUE
         [] resp = "error" ->
              /\ insertResult' = "error"
              /\ shown' = shown \cup {"error_insert"}
              /\ UNCHANGED <<dbRows, insertedVer, cache, cleared>>
         [] resp = "raise" ->
              /\ insertResult' = "exception"
              /\ shown' = shown \cup {"exception_insert"}
              /\ UNCHANGED <<dbRows, insertedVer, cache, cleared>>

\* Lines 188-201: one insert(payload).execute() and what follows it.
Insert(resp) ==
    /\ roundTrips' = roundTrips + 1
    /\ insertAttempts' = insertAttempts + 1
    /\ CASE resp = "ok" ->
              /\ dbRows < MaxRows
              /\ dbRows' = dbRows + 1
              /\ insertedVer' = dbRows + 1
              /\ insertResult' = "ok"
              /\ shown' = shown \cup {"success"}
              /\ cache' = NoCache
              /\ cleared' = TRUE
         [] resp = "error" ->
              /\ insertResult' = "error"
              /\ shown' = shown \cup {"error_insert"}
              /\ UNCHANGED <<dbRows, insertedVer, cache, cleared>>
         [] resp = "raise" ->
              /\ insertResult' = "exception"
              /\ shown' = shown \cup {"exception_insert"}
              /\ UNCHANGED <<dbRows, insertedVer, cache, cleared>>

\* Mutant of Submit: the guard reads `amount < 0`.
Submit_StrictGuard ==
    /\ pc = "submit"
    /\ pc' = "dashboard"
    /\ IF ~submitted
       THEN UNCHANGED <<cache, dbRows, roundTrips, insertAttempts, insertResult,
                        cleared, shown, insertedVer>>
       ELSE IF amount < 0
       THEN /\ shown' = shown \cup {"error_amount"}
            /\ UNCHANGED <<cache, dbRows, roundTrips, insertAttempts,
                           insertResult, cleared, insertedVer>>
       ELSE \E resp \in Responses : Insert(resp)
    /\ UNCHANGED <<nProfiles, formOnScreen, submitted, amount, loaded, rendered,
                   dataVars>>

\* Lines 177-201.
Submit ==
    /\ pc = "submit"
    /\ pc' = "dashboard"
    /\ IF ~submitted
       THEN UNCHANGED <<cache, dbRows, roundTrips, insertAttempts, insertResult,
                        cleared, shown, insertedVer>>
       ELSE IF amount <= 0
       THEN /\ shown' = shown \cup {"error_amount"}
            /\ UNCHANGED <<cache, dbRows, roundTrips, insertAttempts,
                           insertResult, cleared, insertedVer>>
       ELSE \E resp \in Responses : Insert(resp)
    /\ UNCHANGED <<nProfiles, formOnScreen, submitted, amount, loaded, rendered,
                   dataVars>>

\* Lines 208-268: no summary rows, st.info and st.stop().
Dashboard ==
    /\ pc = "dashboard"
    /\ \E resp \in Responses :
          LET r == load_monthly_view(resp) IN
          IF r.raised THEN Abort(r, TRUE)
          ELSE /\ cache' = r.cache
               /\ roundTrips' = roundTrips + r.trips
               /\ loaded' = [loaded EXCEPT !["df"] = {r.val}]
               /\ UNCHANGED formOnScreen
               /\ IF r.val.n = 0
                  THEN /\ shown' = shown \cup {"info_no_view"}
                       /\ pc' = "idle"
                       /\ UNCHANGED rendered
                  ELSE /\ pc' = "history"
                       /\ rendered' = rendered \cup {"dashboard"}
                       /\ UNCHANGED shown
    /\ UNCHANGED <<dbRows, nProfiles, submitted, amount, insertAttempts,
                   insertResult, cleared, insertedVer, dataVars>>

\* Lines 273-375.
History ==
    /\ pc = "history"
    /\ \E resp1 \in Responses, resp2 \in Responses :
          LET r == load_income_entries(resp1, resp2) IN
          IF r.raised THEN Abort(r, TRUE)
          ELSE /\ pc' = "idle"
               /\ cache' = r.cache
               /\ roundTrips' = roundTrips + r.trips
               /\ loaded' = [loaded EXCEPT !["df_entries"] = {r.val}]
               /\ shown' = IF r.val.n = 0 THEN shown \cup {"info_no_entries"}
                           ELSE shown
               /\ rendered' = IF r.val.n = 0 THEN rendered
                              ELSE rendered \cup {"history"}
               /\ UNCHANGED formOnScreen
    /\ UNCHANGED <<dbRows, nProfiles, submitted, amount, insertAttempts,
                   insertResult, cleared, insertedVer, dataVars>>

\* Time passes, the shortest ttl at a time: every cache entry ages (an entry
\* at its ttl is expired).
Tick ==
    /\ \E l \in Loaders : Cached(l)
    /\ cache' = [l \in Loaders |->
                    {[e EXCEPT !.age = Min(e.age + TTL_MONTHLY, TTL(l))] : e \in cache[l]}]
    /\ UNCHANGED <<pc, dbRows, nProfiles, formOnScreen, submitted, amount,
                   loaded, roundTrips, insertAttempts, insertResult, cleared,
                   shown, rendered, insertedVer, dataVars>>

\* Another client of the store inserts an entry.
OtherClientInsert ==
    /\ dbRows < MaxRows
    /\ dbRows' = dbRows + 1
    /\ UNCHANGED <<pc, cache, nProfiles, formOnScreen, submitted, amount,
                   loaded, roundTrips, insertAttempts, insertResult, cleared,
                   shown, rendered, insertedVer, dataVars>>

\* Profiles are created and removed outside this program.
ProfilesManaged ==
    /\ \E k \in 0..MaxProfiles : k # nProfiles /\ nProfiles' = k
    /\ UNCHANGED <<pc, cache, dbRows, formOnScreen, submitted, amount,
                   loaded, roundTrips, insertAttempts, insertResult, cleared,
                   shown, rendered, insertedVer, dataVars>>

Next ==
    \/ StartRun \/ Kpi \/ LoadProfiles \/ Form \/ Submit \/ Dashboard
    \/ History \/ Tick \/ OtherClientInsert \/ ProfilesManaged

Spec == Init /\ [][Next]_vars

(***************************************************************************)
(* SpecEur: eur (lines 83-87).  Amounts are integers of cents; strings are *)
(* sequences of characters.                                                *)
(***************************************************************************)
Abs(n) == IF n < 0 THEN -n ELSE n

Digit(d) ==
    CASE d = 0 -> "0" [] d = 1 -> "1" [] d = 2 -> "2" [] d = 3 -> "3"
      [] d = 4 -> "4" [] d = 5 -> "5" [] d = 6 -> "6" [] d = 7 -> "7"
      [] d = 8 -> "8" [] d = 9 -> "9"

DigitValue(ch) == CHOOSE d \in 0..9 : Digit(d) = ch

RECURSIVE DigitsOf(_)
DigitsOf(n) ==
    IF n < 10 THEN <<Digit(n)>> ELSE DigitsOf(n \div 10) \o <<Digit(n % 10)>>

\* The ',' option of the format specification: a comma every three digits.
RECURSIVE Grouped(_)
Grouped(ds) ==
    IF Len(ds) <= 3 THEN ds
    ELSE Grouped(SubSeq(ds, 1, Len(ds) - 3)) \o <<",">>
         \o SubSeq(ds, Len(ds) - 2, Len(ds))

\* f"{x:,.2f}" of x = c / 100.
FormatComma2f(c) ==
    (IF c < 0 THEN <<"-">> ELSE <<>>)
    \o Grouped(DigitsOf(Abs(c) \div 100))
    \o <<".", Digit((Abs(c) \div 10) % 10), Digit(Abs(c) % 10)>>

\* str.replace(a, b) for one-character a and b.
Replace(s, a, b) == [i \in 1..Len(s) |-> IF s[i] = a THEN b ELSE s[i]]

\* Mutant of eur: the third replace is missing.
eur_NoThirdReplace(c) ==
    Replace(Replace(FormatComma2f(c), ",", "X"), ".", ",") \o <<" ", "€">>

\* Lines 83-87.
eur(c) ==
    Replace(Replace(Replace(FormatComma2f(c), ",", "X"), ".", ","), "X", ".")
    \o <<" ", "€">>

EurInputs ==
    (-MaxCents..MaxCents)
    \cup {s * m : s \in {1, -1},
                  m \in {999, 99999, 100000, 123450, 99999999, 100000000,
                         100000001, 2147483647}}

InitEur ==
    /\ RunAtRest /\ KpiAtRest /\ DashAtRest /\ HistAtRest
    /\ x \in EurInputs
    /\ eur_out = <<>>

EurFormat ==
    /\ eur_out = <<>>
    /\ eur_out' = eur(x)
    /\ UNCHANGED <<x, runVars, kpiVars, dashVars, histVars>>

NextEur == EurFormat

SpecEur == InitEur /\ [][NextEur]_vars

(***************************************************************************)
(* SpecKpi: the KPI block (lines 94-125) on the rows of v_monthly_summary. *)
(* A nullable field is {} (None / NaN) or {value}; amounts are cents.      *)
(***************************************************************************)
RECURSIVE SeqsUpTo(_, _)
SeqsUpTo(S, n) ==
    IF n = 0 THEN {<<>>}
    ELSE LET shorter == SeqsUpTo(S, n - 1)
         IN shorter \cup {Append(q, e) : q \in {t \in shorter : Len(t) = n - 1}, e \in S}

\* The (full_name, user_id) pairs and the ahorro values a summary row carries:
\* a number, null, or a text that is no number.
KpiKeys == {<<{"Ana"}, {1}>>, <<{"Luis"}, {2}>>, <<{}, {2}>>, <<{"Ana"}, {}>>}
KpiAhorros ==
    {[kind |-> "num", v |-> 25000], [kind |-> "num", v |-> -10050],
     [kind |-> "null", v |-> 0], [kind |-> "text", v |-> 0]}
KpiRows ==
    {[full_name |-> k[1], user_id |-> k[2], ahorro |-> a] :
        k \in KpiKeys, a \in KpiAhorros}

\* pd.to_numeric(..., errors="coerce"): what is no number becomes NaN.
ToNumeric(a) == IF a.kind = "num" THEN {a.v} ELSE {}
\* .fillna(0)
FillNa0(v) == IF v = {} THEN 0 ELSE CHOOSE n \in v : TRUE

\* Line 100.
NormalizeAhorro(rows) ==
    [i \in 1..Len(rows) |-> [rows[i] EXCEPT !.ahorro = FillNa0(ToNumeric(@))]]

RECURSIVE SumAhorro(_)
SumAhorro(rows) ==
    IF rows = <<>> THEN 0 ELSE rows[1].ahorro + SumAhorro(Tail(rows))

\* groupby(["full_name", "user_id"], as_index=False)["ahorro"].sum(): pandas
\* groups with dropna=True, a row with a null key belongs to no group.
GroupKeys(rows) ==
    {<<rows[i].full_name, rows[i].user_id>> : i \in 1..Len(rows)}
        \ {k \in {<<rows[i].full_name, rows[i].user_id>> : i \in 1..Len(rows)} :
              k[1] = {} \/ k[2] = {}}
GroupSum(rows, k) ==
    SumAhorro(SelectSeq(rows, LAMBDA r : <<r.full_name, r.user_id>> = k))
GroupBySum(rows) ==
    {[full_name |-> k[1], user_id |-> k[2], ahorro |-> GroupSum(rows, k)] :
        k \in GroupKeys(rows)}

\* The orders .sort_values("ahorro", ascending=False) may give the groups:
\* equal totals stay in the order of their group keys, which is left open.
SortedDescByAhorro(S) ==
    {q \in [1..Cardinality(S) -> S] :
        /\ \A i, j \in 1..Cardinality(S) : i # j => q[i] # q[j]
        /\ \A i, j \in 1..Cardinality(S) : i < j => q[i].ahorro >= q[j].ahorro}

InitKpi ==
    /\ RunAtRest /\ EurAtRest /\ DashAtRest /\ HistAtRest
    /\ df_kpi \in SeqsUpTo(KpiRows, MaxKpiRows)
    /\ total_ahorro = 0 /\ df_ahorro_user = <<>> /\ kpi_done = FALSE

\* Lines 96-109.
KpiBlock ==
    /\ ~kpi_done
    /\ kpi_done' = TRUE
    /\ IF df_kpi = <<>>
       THEN UNCHANGED <<df_kpi, total_ahorro, df_ahorro_user>>
       ELSE LET norm == NormalizeAhorro(df_kpi) IN
            /\ df_kpi' = norm
            /\ total_ahorro' = SumAhorro(norm)
            /\ df_ahorro_user' \in SortedDescByAhorro(GroupBySum(norm))
    /\ UNCHANGED <<runVars, eurVars, dashVars, histVars>>

NextKpi == KpiBlock

SpecKpi == InitKpi /\ [][NextKpi]_vars

(***************************************************************************)
(* SpecFilter: the dashboard filter (lines 210-246) and the history        *)
(* (lines 276-373).  A date is <<year, month, day>>, a timestamp            *)
(* <<year, month, day, hour>>; both order as their ISO strings do.          *)
(***************************************************************************)
RECURSIVE LexLess(_, _)
LexLess(a, b) ==
    IF a = <<>> \/ b = <<>> THEN Len(a) < Len(b)
    ELSE IF a[1] # b[1] THEN a[1] < b[1]
    ELSE LexLess(Tail(a), Tail(b))
LexLeq(a, b) == a = b \/ LexLess(a, b)

\* Strings order by their characters' codes: '-' comes before the digits.
CharCode(ch) == IF ch = "-" THEN 45 ELSE 48 + DigitValue(ch)
StrLess(a, b) ==
    LexLess([i \in 1..Len(a) |-> CharCode(a[i])], [i \in 1..Len(b) |-> CharCode(b[i])])

RECURSIVE Pad(_, _)
Pad(ds, w) == IF Len(ds) >= w THEN ds ELSE Pad(<<"0">> \o ds, w)

\* f"{year:04d}-{month:02d}", the "YYYY-MM" text of a month.
FormatYm(y, m) == Pad(DigitsOf(y), 4) \o <<"-">> \o Pad(DigitsOf(m), 2)

RECURSIVE ParseInt(_)
ParseInt(s) ==
    IF s = <<>> THEN 0
    ELSE 10 * ParseInt(SubSeq(s, 1, Len(s) - 1)) + DigitValue(s[Len(s)])

\* Lines 76-78: strptime(ym, "%Y-%m").date() is the first day of the month.
ym_to_date(ym) == <<ParseInt(SubSeq(ym, 1, 4)), ParseInt(SubSeq(ym, 6, Len(ym))), 1>>

\* Lines 80-81.
date_to_ym(d) == FormatYm(d[1], d[2])

\* ---- the rows of v_monthly_summary ----
SummaryUsers ==
    {[full_name |-> "Ana", user_id |-> 1], [full_name |-> "Luis", user_id |-> 2]}
SummaryMonths == {<<2023, 12>>, <<2024, 1>>, <<2024, 2>>}
DaysOfMonth == {1, 15}

SummaryRow(u, ym) ==
    [full_name |-> u.full_name, user_id |-> u.user_id, year |-> ym[1],
     month |-> ym[2], year_month |-> FormatYm(ym[1], ym[2])]

YearMonthLeq(r1, r2) == LexLeq(<<r1.year, r1.month>>, <<r2.year, r2.month>>)

\* .order(column, desc=...) of the three queries.
InOrder(by, r1, r2) ==
    CASE by = "year, month" -> YearMonthLeq(r1, r2)
      [] by = "year desc, month desc" -> YearMonthLeq(r2, r1)
      [] by = "created_at desc" -> LexLeq(r2.created_at, r1.created_at)

\* The sequences that hold each element of S once, in the order `by`; rows
\* with equal keys come in any order.
Orderings(S, by) ==
    {q \in [1..Cardinality(S) -> S] :
        /\ \A i, j \in 1..Cardinality(S) : i # j => q[i] # q[j]
        /\ \A i, j \in 1..Cardinality(S) : i < j => InOrder(by, q[i], q[j])}

\* Lines 36-43: one row per user and month, .order("year").order("month").
SummaryDatasets ==
    UNION {Orderings(S, "year, month") :
             S \in {T \in SUBSET {SummaryRow(u, ym) : u \in SummaryUsers,
                                                      ym \in SummaryMonths} :
                      Cardinality(T) <= MaxSummaryRows}}

\* The summary the history is exercised with.
FixedSummary ==
    <<SummaryRow([full_name |-> "Ana", user_id |-> 1], <<2023, 12>>),
      SummaryRow([full_name |-> "Ana", user_id |-> 1], <<2024, 1>>)>>

\* Lines 224-228: both pickers offer the days from min_d to max_d.
YmDates(rows) == {ym_to_date(rows[i].year_month) : i \in 1..Len(rows)}
MinDate(D) == CHOOSE d \in D : \A e \in D : LexLeq(d, e)
MaxDate(D) == CHOOSE d \in D : \A e \in D : LexLeq(e, d)
DashDates(rows) ==
    {d \in {<<ym[1], ym[2], day>> : ym \in SummaryMonths, day \in DaysOfMonth} :
        /\ LexLeq(MinDate(YmDates(rows)), d)
        /\ LexLeq(d, MaxDate(YmDates(rows)))}

\* sort_values(["year", "month"]): rows with equal keys keep their order.
RECURSIVE InsertByYearMonth(_, _)
InsertByYearMonth(sorted, r) ==
    IF sorted = <<>> THEN <<r>>
    ELSE IF YearMonthLeq(sorted[Len(sorted)], r) THEN Append(sorted, r)
    ELSE Append(InsertByYearMonth(SubSeq(sorted, 1, Len(sorted) - 1), r),
                sorted[Len(sorted)])
RECURSIVE SortByYearMonth(_)
SortByYearMonth(rows) ==
    IF rows = <<>> THEN <<>>
    ELSE InsertByYearMonth(SortByYearMonth(SubSeq(rows, 1, Len(rows) - 1)),
                           rows[Len(rows)])

\* Mutant of DashboardFilter: lines 230-231 (the swap) are missing.
DashboardFilter_NoSwap(rows, user, dfrom, dto) ==
    SortByYearMonth(
        SelectSeq(rows, LAMBDA r :
            /\ r.full_name = user
            /\ LexLeq(dfrom, ym_to_date(r.year_month))
            /\ LexLeq(ym_to_date(r.year_month), dto)))

\* Lines 230-246.
DashboardFilter(rows, user, dfrom, dto) ==
    LET inverted == LexLess(dto, dfrom)
        lo == IF inverted THEN dto ELSE dfrom
        hi == IF inverted THEN dfrom ELSE dto
    IN SortByYearMonth(
           SelectSeq(rows, LAMBDA r :
               /\ r.full_name = user
               /\ LexLeq(lo, ym_to_date(r.year_month))
               /\ LexLeq(ym_to_date(r.year_month), hi)))

\* ---- the rows of income_entries ----
EntryKinds ==
    {[user_id |-> 1, source |-> "Nómina"], [user_id |-> 1, source |-> "Gasto"],
     [user_id |-> 2, source |-> "Gasto"]}
EntryMonths == {<<2023, 12>>, <<2024, 1>>}
EntryStamps ==
    {<<2024, 1, 30, 9>>, <<2024, 1, 30, 18>>, <<2024, 1, 31, 9>>, <<2024, 2, 1, 9>>}
HistDates == {<<2024, 1, 30>>, <<2024, 1, 31>>, <<2024, 2, 1>>}
HistProfiles ==
    <<[user_id |-> 1, full_name |-> "Ana"], [user_id |-> 2, full_name |-> "Luis"]>>

\* The table: ids in insertion order, created_at growing with the id.
EntryTables ==
    {t \in SeqsUpTo([kind : EntryKinds, ym : EntryMonths, at : EntryStamps],
                    MaxEntries) :
        \A i, j \in 1..Len(t) : i < j => LexLess(t[i].at, t[j].at)}

Entry(t, i, withStamp) ==
    [id |-> i, created_at |-> IF withStamp THEN t[i].at ELSE <<>>,
     user_id |-> t[i].kind.user_id, year |-> t[i].ym[1], month |-> t[i].ym[2],
     source |-> t[i].kind.source, amount |-> 150000]

\* Lines 54-74: the rows ordered by created_at descending, or, from the
\* fallback query, without created_at and by year and month descending.
EntryDatasets ==
    UNION {{[created_at |-> Len(t) > 0, rows |-> q] :
               q \in Orderings({Entry(t, i, TRUE) : i \in 1..Len(t)},
                              "created_at desc")}
           \cup
           {[created_at |-> FALSE, rows |-> q] :
               q \in Orderings({Entry(t, i, FALSE) : i \in 1..Len(t)},
                              "year desc, month desc")}
           : t \in EntryTables}

\* Lines 282-296 and 316: the merge with the profiles (how="left"), the
\* "YYYY-MM" column and the parsed timestamp.
Merged(rows) ==
    [i \in 1..Len(rows) |->
        [id |-> rows[i].id, created_at |-> rows[i].created_at,
         user_id |-> rows[i].user_id, year |-> rows[i].year,
         month |-> rows[i].month, source |-> rows[i].source,
         amount |-> rows[i].amount,
         full_name |-> {HistProfiles[k].full_name : k \in
                          {k \in 1..Len(HistProfiles) :
                              HistProfiles[k].user_id = rows[i].user_id}},
         year_month |-> FormatYm(rows[i].year, rows[i].month),
         created_at_dt |-> rows[i].created_at]]

\* created_at_dt.dt.date
DateOf(ts) == SubSeq(ts, 1, 3)

\* Lines 299-331: what the three widgets offer.
HistUsers(rows) == {"(Todos)"} \cup UNION {rows[i].full_name : i \in 1..Len(rows)}
HistTipos(rows) == {"(Todos)"} \cup {rows[i].source : i \in 1..Len(rows)}
HistRanges(frame) ==
    IF ~frame.created_at THEN {<<>>}
    ELSE LET days == {DateOf(frame.rows[i].created_at) : i \in 1..Len(frame.rows)}
             offered == {d \in HistDates :
                            LexLeq(MinDate(days), d) /\ LexLeq(d, MaxDate(days))}
         IN {<<d>> : d \in offered} \cup (offered \X offered)

\* Lines 333-346.
HistoryFilter(rows, hasStamp, user, tipo, range) ==
    LET byUser == IF user # "(Todos)"
                  THEN SelectSeq(rows, LAMBDA r : r.full_name = {user}) ELSE rows
        byTipo == IF tipo # "(Todos)"
                  THEN SelectSeq(byUser, LAMBDA r : r.source = tipo) ELSE byUser
    IN IF hasStamp /\ range # <<>>
       THEN LET inverted == LexLess(range[2], range[1])
                d0 == IF inverted THEN range[2] ELSE range[1]
                d1 == IF inverted THEN range[1] ELSE range[2]
            IN SelectSeq(byTipo, LAMBDA r :
                   /\ LexLeq(d0, DateOf(r.created_at_dt))
                   /\ LexLeq(DateOf(r.created_at_dt), d1))
       ELSE byTipo

\* The columns of df_hist at line 370: those of the entries, of the merge,
\* and the ones lines 291-350 add.  The rename of line 359 yields a new
\* frame; df_hist keeps its own names.
HistColumns(hasStamp) ==
    {"id", "user_id", "year", "month", "source", "amount", "full_name",
     "year_month", "Cantidad", "Cantidad (formato)"}
    \cup (IF hasStamp THEN {"created_at", "created_at_dt"} ELSE {})

\* Lines 352-355 and the rename of lines 359-368.
OutColumns(hasStamp) ==
    (IF "created_at" \in HistColumns(hasStamp) THEN {"Fecha inserción"} ELSE {})
    \cup {"ID registro", "Usuario", "User ID", "Mes (YYYY-MM)", "Tipo",
          "Cantidad", "Cantidad (formato)"}

OutRow(r, hasStamp) ==
    [c \in OutColumns(hasStamp) |->
        CASE c = "Fecha inserción" -> r.created_at
          [] c = "ID registro" -> r.id
          [] c = "Usuario" -> r.full_name
          [] c = "User ID" -> r.user_id
          [] c = "Mes (YYYY-MM)" -> r.year_month
          [] c = "Tipo" -> r.source
          [] c = "Cantidad" -> r.amount
          [] c = "Cantidad (formato)" -> eur(r.amount)]

\* Line 370: the column the table is sorted by.
SortColumn(hasStamp) ==
    IF "Fecha inserción" \in HistColumns(hasStamp)
    THEN "Fecha inserción" ELSE "Mes (YYYY-MM)"

ColumnGeq(col, r1, r2) ==
    IF col = "Mes (YYYY-MM)"
    THEN r1[col] = r2[col] \/ StrLess(r2[col], r1[col])
    ELSE LexLeq(r2[col], r1[col])

\* sort_values(by=[col], ascending=False): descending, and rows with equal
\* keys keep their order (pandas reverses, sorts and reverses back; frames
\* this small are sorted by insertion).
RECURSIVE InsertDesc(_, _, _)
InsertDesc(sorted, r, col) ==
    IF sorted = <<>> THEN <<r>>
    ELSE IF ColumnGeq(col, sorted[Len(sorted)], r) THEN Append(sorted, r)
    ELSE Append(InsertDesc(SubSeq(sorted, 1, Len(sorted) - 1), r, col),
                sorted[Len(sorted)])
RECURSIVE SortValuesDesc(_, _)
SortValuesDesc(rows, col) ==
    IF rows = <<>> THEN <<>>
    ELSE InsertDesc(SortValuesDesc(SubSeq(rows, 1, Len(rows) - 1), col),
                    rows[Len(rows)], col)

NoEntries == [created_at |-> FALSE, rows |-> <<>>]

InitFilter ==
    /\ RunAtRest /\ KpiAtRest /\ EurAtRest
    /\ \/ df \in SummaryDatasets /\ df_entries = NoEntries
       \/ df = FixedSummary /\ df_entries \in EntryDatasets
    /\ user_filter = "" /\ date_from = <<0, 0, 0>> /\ date_to = <<0, 0, 0>>
    /\ df_f = <<>> /\ dash_done = "no"
    /\ hist_user = "" /\ hist_tipo = "" /\ date_range = <<>>
    /\ df_hist = <<>> /\ df_hist_out = <<>> /\ hist_done = "no"

\* Lines 210-246.
DashboardStep ==
    /\ dash_done = "no"
    /\ IF df = <<>>
       THEN /\ dash_done' = "stopped"
            /\ UNCHANGED <<user_filter, date_from, date_to, df_f>>
       ELSE \E u \in {df[i].full_name : i \in 1..Len(df)},
               a \in DashDates(df), b \in DashDates(df) :
               /\ user_filter' = u
               /\ date_from' = a
               /\ date_to' = b
               /\ df_f' = DashboardFilter(df, u, a, b)
               /\ dash_done' = "done"
    /\ UNCHANGED <<df, runVars, kpiVars, eurVars, histVars>>

\* Lines 276-373.
HistoryStep ==
    /\ dash_done = "done"
    /\ hist_done = "no"
    /\ IF df_entries.rows = <<>>
       THEN /\ hist_done' = "done"
            /\ UNCHANGED <<hist_user, hist_tipo, date_range, df_hist, df_hist_out>>
       ELSE LET rows == Merged(df_entries.rows)
                hasStamp == df_entries.created_at
            IN \E u \in HistUsers(rows), t \in HistTipos(rows),
                  range \in HistRanges(df_entries) :
                  /\ hist_user' = u
                  /\ hist_tipo' = t
                  /\ date_range' = range
                  /\ IF hasStamp /\ Len(range) = 1
                     THEN \* `d0, d1 = date_range` raises ValueError
                          /\ hist_done' = "error"
                          /\ UNCHANGED <<df_hist, df_hist_out>>
                     ELSE /\ hist_done' = "done"
                          /\ df_hist' = HistoryFilter(rows, hasStamp, u, t, range)
                          /\ df_hist_out' =
                                SortValuesDesc(
                                    [i \in 1..Len(df_hist') |->
                                        OutRow(df_hist'[i], hasStamp)],
                                    SortColumn(hasStamp))
    /\ UNCHANGED <<df_entries, runVars, kpiVars, eurVars, dashVars>>

NextFilter == DashboardStep \/ HistoryStep

SpecFilter == InitFilter /\ [][NextFilter]_vars

(***************************************************************************)
(* Claims about the script run (checked under Spec).                       *)
(***************************************************************************)

\* The `if submitted:` block of this run has been executed.
PastSubmit == "form" \in rendered /\ pc \in {"dashboard", "history", "idle"}

InsertMessages == {"success", "error_insert", "exception_insert"}

\* C1: in a run where the form is submitted with amount <= 0 the insert is
\* never issued: no write round-trip, no cache clear, and of the messages of
\* the submit block only the validation error is shown; and an insert is
\* issued only in a run where submitted is true and amount > 0.
C1_NoInsertUnlessPositiveAmount ==
    /\ insertAttempts > 0 => (submitted /\ amount > 0)
    /\ (PastSubmit /\ submitted /\ amount <= 0) =>
          /\ insertAttempts = 0
          /\ insertResult = "none"
          /\ ~cleared
          /\ "error_amount" \in shown
          /\ shown \cap InsertMessages = {}

C1_Witness ==
    /\ pc = "dashboard" /\ submitted /\ amount = 0
    /\ "error_amount" \in shown /\ insertAttempts = 0
    /\ \E l \in Loaders : cache[l] # {}

\* C2: a successful insert clears every cached read, so no cache entry and
\* no value a loader returns after the insert predates it, whatever ttl the
\* cleared entries had left: each comes from a fetch made after the insert,
\* and the summary and entry reads whose response carries data hold the row.
C2_Fresh(v) == v.asOf >= insertedVer /\ (v.n >= insertedVer \/ v.n = 0)

C2_NoStaleReadAfterInsert ==
    /\ [](\A l \in Loaders : \A e \in cache[l] : e.val.asOf >= insertedVer)
    /\ [](\A c \in CallSites : \A v \in loaded[c] :
             \/ insertResult = "ok" /\ c \in {"df_kpi", "profiles"}
             \/ IF c = "profiles" THEN v.asOf >= insertedVer ELSE C2_Fresh(v))
    /\ [][(insertResult # "ok" /\ insertResult' = "ok") => cache' = NoCache]_vars

\* The summary cached before the insert was still within its ttl, and the
\* read at line 210 of the same run returns the new row.
C2_Witness ==
    /\ insertResult = "ok" /\ pc = "history"
    /\ \E a \in loaded["df_kpi"], b \in loaded["df"] :
          a.n < insertedVer /\ b.n >= insertedVer /\ b.n > 0

\* C3: when the insert fails (error object or exception) it was attempted
\* exactly once, the error is shown, no success message is shown, and the
\* caches are left as they were (not cleared).
C3_FailedInsertSingleAttempt ==
    /\ [](insertResult \in {"error", "exception"} =>
             /\ insertAttempts = 1
             /\ "success" \notin shown
             /\ ~cleared
             /\ insertResult = "error" => "error_insert" \in shown
             /\ insertResult = "exception" => "exception_insert" \in shown)
    /\ [][(pc = "submit" /\ insertResult' \in {"error", "exception"})
             => cache' = cache]_vars

C3_Witness ==
    /\ insertResult = "exception" /\ pc = "dashboard"
    /\ "exception_insert" \in shown
    /\ \E l \in Loaders : cache[l] # {}

\* load_profiles returned no profiles in this run.
EmptyProfilesRun == \E v \in loaded["profiles"] : v.n = 0

\* C6 as stated: an empty profile list never keeps the run from rendering
\* the dashboard from the summary rows.
C6_DashboardDespiteEmptyProfiles ==
    (pc = "idle" /\ EmptyProfilesRun /\ \E v \in loaded["df_kpi"] : v.n > 0)
        => "dashboard" \in rendered

\* C6 amended: when profiles are empty the script shows the error and stops
\* before the form; of the page only the KPI block above it was rendered,
\* neither form nor dashboard nor history, and no insert is issued.
C6_EmptyProfilesStopTheRun ==
    EmptyProfilesRun =>
        /\ pc = "idle"
        /\ rendered = {"kpi"}
        /\ "error_no_users" \in shown
        /\ loaded["df"] = {} /\ loaded["df_entries"] = {}
        /\ insertAttempts = 0

C6_Witness ==
    /\ pc = "idle" /\ EmptyProfilesRun
    /\ \E v \in loaded["df_kpi"] : v.n > 0
    /\ "dashboard" \notin rendered

\* C9 as stated: a script run makes at most one round-trip to the store.
C9_AtMostOneRoundTrip == roundTrips <= 1

\* C9 amended: a script run makes at most six round-trips: two reads of
\* load_monthly_view (lines 94 and 210), one of load_profiles, one insert
\* and the two queries of load_income_entries.
C9_AtMostSixRoundTrips ==
    /\ roundTrips <= 6
    /\ insertAttempts <= 1
    /\ roundTrips - insertAttempts <= 5

C9_Witness == roundTrips = 6 /\ insertAttempts = 1 /\ pc = "idle"

(***************************************************************************)
(* Claim about eur (checked under SpecEur).                                *)
(***************************************************************************)
DigitChars == {"0", "1", "2", "3", "4", "5", "6", "7", "8", "9"}

\* The number a sequence of digits and '.' separators denotes.
RECURSIVE NumberOf(_)
NumberOf(s) ==
    IF s = <<>> THEN 0
    ELSE IF s[Len(s)] = "." THEN NumberOf(SubSeq(s, 1, Len(s) - 1))
    ELSE 10 * NumberOf(SubSeq(s, 1, Len(s) - 1)) + DigitValue(s[Len(s)])

\* s is the integer part of an amount: digits in groups of three from the
\* right, a '.' between every two groups, no leading zero or separator.
IsGroupedInteger(s) ==
    /\ Len(s) >= 1
    /\ \A i \in 1..Len(s) :
          IF (Len(s) - i + 1) % 4 = 0 THEN s[i] = "." ELSE s[i] \in DigitChars
    /\ s[1] # "."
    /\ s[1] = "0" => Len(s) = 1

\* C10: eur renders an amount with exactly two decimals, '.' between every
\* group of three integer digits, ',' as the decimal separator and the
\* suffix ' €'; 0 gives "0,00 €", 1234.5 gives "1.234,50 €" and 1000000
\* gives "1.000.000,00 €".
C10_EurFormat ==
    eur_out # <<>> =>
        LET n == Len(eur_out)
            body == SubSeq(eur_out, 1, n - 5)
            int == IF x < 0 THEN Tail(body) ELSE body
        IN /\ n >= 6
           /\ eur_out[n] = "€" /\ eur_out[n - 1] = " "
           /\ eur_out[n - 4] = ","
           /\ eur_out[n - 3] = Digit((Abs(x) \div 10) % 10)
           /\ eur_out[n - 2] = Digit(Abs(x) % 10)
           /\ (x < 0) = (body[1] = "-")
           /\ IsGroupedInteger(int)
           /\ NumberOf(int) = Abs(x) \div 100
           /\ x = 0 => eur_out = <<"0", ",", "0", "0", " ", "€">>
           /\ x = 123450 =>
                 eur_out = <<"1", ".", "2", "3", "4", ",", "5", "0", " ", "€">>
           /\ x = 100000000 =>
                 eur_out = <<"1", ".", "0", "0", "0", ".", "0", "0", "0", ",",
                             "0", "0", " ", "€">>

C10_Witness ==
    /\ x = 100000000
    /\ eur_out = <<"1", ".", "0", "0", "0", ".", "0", "0", "0", ",",
                   "0", "0", " ", "€">>

(***************************************************************************)
(* Claim about the KPI block (checked under SpecKpi).                      *)
(***************************************************************************)

\* C4: the per-user totals of savingsByUser add up to totalSavings of all
\* the rows, also when rows lack full_name or user_id or carry a savings
\* value that is no number.
C4_GroupTotalsAddUp ==
    kpi_done => SumAhorro(df_ahorro_user) = total_ahorro

(***************************************************************************)
(* Claims about the filters (checked under SpecFilter).                    *)
(***************************************************************************)
Earlier(a, b) == IF LexLess(b, a) THEN b ELSE a
Later(a, b) == IF LexLess(b, a) THEN a ELSE b

\* C5: the history table is sorted descending by insertion timestamp when
\* the entries carry created_at, and descending by (year, month) when they
\* lack it, whatever user, type and date range are selected.
C5_HistorySortedByInsertion ==
    hist_done = "done" =>
        \A i, j \in 1..Len(df_hist_out) : i < j =>
            IF df_entries.created_at
            THEN LexLeq(df_hist_out[j]["Fecha inserción"],
                        df_hist_out[i]["Fecha inserción"])
            ELSE LexLeq(ym_to_date(df_hist_out[j]["Mes (YYYY-MM)"]),
                        ym_to_date(df_hist_out[i]["Mes (YYYY-MM)"]))

\* C7: the dashboard filter returns exactly the rows of the selected user
\* whose month lies between the month of the earlier bound and the month of
\* the later bound, both included whatever day the bounds carry, sorted
\* ascending by (year, month).
C7_InRange(r) ==
    /\ r.full_name = user_filter
    /\ LexLeq(SubSeq(Earlier(date_from, date_to), 1, 2), <<r.year, r.month>>)
    /\ LexLeq(<<r.year, r.month>>, SubSeq(Later(date_from, date_to), 1, 2))

C7_DashboardFilterByMonth ==
    dash_done = "done" =>
        df_f \in Orderings({df[i] : i \in {k \in 1..Len(df) : C7_InRange(df[k])}},
                           "year, month")

\* C8: in both filters an inverted range (from > to) raises no error and
\* gives the rows the same bounds give in the right order.
C8_SwapInvariance ==
    /\ dash_done = "done" =>
          df_f = DashboardFilter(df, user_filter, date_to, date_from)
    /\ (hist_done # "no" /\ Len(date_range) = 2) =>
          /\ hist_done = "done"
          /\ df_hist = HistoryFilter(Merged(df_entries.rows), df_entries.created_at,
                                     hist_user, hist_tipo,
                                     <<date_range[2], date_range[1]>>)

\* Both ranges were given inverted and both keep some rows and drop others.
C8_Witness ==
    /\ dash_done = "done" /\ hist_done = "done"
    /\ LexLess(date_to, date_from)
    /\ df_f # <<>> /\ Len(df_f) < Len(df)
    /\ Len(date_range) = 2 /\ LexLess(date_range[2], date_range[1])
    /\ df_hist # <<>> /\ Len(df_hist) < Len(df_entries.rows)
    /\ hist_user = "(Todos)" /\ hist_tipo = "(Todos)"

====
